---- MODULE Spec2Model ----
(***************************************************************************)
(* Admin-session lifecycle of the grocerygunj dashboard:                   *)
(*   - the Protected Route Gate (ProtectedRoute component),                *)
(*   - the Auth Lifecycle Manager it consumes (AuthContext),               *)
(*   - the Diagnostic Utilities (debugUtils.ts),                           *)
(*   - the sign-in helper of the Credential Store (supabase.ts).           *)
(*                                                                         *)
(* JavaScript values are modelled as strings: "true", "false", "null",     *)
(* "undefined".  A React handler, the batched re-render that follows it    *)
(* and the effects of that render are one step (Commit).                   *)
(***************************************************************************)
EXTENDS Integers, Sequences, FiniteSets, TLC

----------------------------------------------------------------------------
(* Values *)

None == "none"
JTrue == "true"
JFalse == "false"
JNull == "null"
JUndef == "undefined"

Users == {"u1", "u2"}
GateUser == "u1"
NoRow == "norow"
Roles == {"admin", "customer", JNull}
Paths == {"/a", "/b"}
LoginPath == "/login"

Truthy(v) == v = JTrue

(* Bounds of the model *)
MaxTicks == 2
MaxTasks == 2

----------------------------------------------------------------------------
(* Session Config: useSessionConfig.ts *)

DAYS == 1
HOURS_PER_DAY == 24
MINUTES_PER_HOUR == 60
SECONDS_PER_MINUTE == 60
MILLISECONDS_PER_SECOND == 1000
DAYS_IN_SECONDS == DAYS * HOURS_PER_DAY * MINUTES_PER_HOUR * SECONDS_PER_MINUTE
DAYS_IN_MS_FromDays == DAYS * MILLISECONDS_PER_SECOND
DAYS_IN_MS == DAYS_IN_SECONDS * MILLISECONDS_PER_SECOND
HOURS_6_IN_MS == 6 * MINUTES_PER_HOUR * SECONDS_PER_MINUTE * MILLISECONDS_PER_SECOND
MINUTES_30_IN_MS == 30 * SECONDS_PER_MINUTE * MILLISECONDS_PER_SECOND
ROUTE_REFRESH_INTERVAL == HOURS_6_IN_MS
MIN_REFRESH_INTERVAL == MINUTES_30_IN_MS

(* What the hook returns (lines 24-38), without the human-readable label *)
useSessionConfig ==
  [ SESSION_DURATION_SECONDS |-> DAYS_IN_SECONDS,
    SESSION_DURATION_MS      |-> DAYS_IN_MS,
    SESSION_REFRESH_INTERVAL |-> HOURS_6_IN_MS,
    ROUTE_REFRESH_INTERVAL   |-> HOURS_6_IN_MS,
    MIN_REFRESH_INTERVAL     |-> MINUTES_30_IN_MS ]

(* No component holds memoized values *)
NoConfig ==
  [ SESSION_DURATION_SECONDS |-> 0,
    SESSION_DURATION_MS      |-> 0,
    SESSION_REFRESH_INTERVAL |-> 0,
    ROUTE_REFRESH_INTERVAL   |-> 0,
    MIN_REFRESH_INTERVAL     |-> 0 ]

(* The constant the Credential Store exports: supabase.ts line 39 *)
SESSION_DURATION_SECONDS == 1 * 24 * 60 * 60

(* The clock: Date.now() in milliseconds, counted from one session length  *)
(* before the first state so that now - 0 exceeds every interval, as it    *)
(* does for a real epoch time.  Time passes in steps of four hours.        *)
TickMs == 4 * MINUTES_PER_HOUR * SECONDS_PER_MINUTE * MILLISECONDS_PER_SECOND
StartNow == DAYS_IN_MS

----------------------------------------------------------------------------
VARIABLES
  \* backend and client storage
  stored,               \* session persisted by the auth client (user id or None)
  profiles,             \* profiles table: user id -> role, or NoRow
  \* Auth Lifecycle Manager (useAuth())
  session, isAdmin, loading,
  netOutstanding,       \* refresh network calls in flight
  \* Protected Route Gate
  mounted, pathname,
  refreshing, refreshAttempted, refreshError,
  lastPathRefreshTime, forceComplete,
  timeoutRef,           \* TRUE while the 8 second timer is armed
  autoWaiting,          \* attemptRefresh calls awaiting refreshSession(), by captured path
  manualWaiting,        \* handleManualRefresh calls awaiting refreshSession(), by captured path
  diagDebug,            \* runDiagnostic calls awaiting debugAdminStatus()
  diagRefresh,          \* runDiagnostic calls awaiting refreshSession()
  diagFix,              \* runDiagnostic calls awaiting refreshSession() after the
                        \* admin fix of lines 75-89 reported success
  reloadArmed,          \* the 1000 ms timer of line 83 is pending
  sessionConfig,        \* the values useSessionConfig() memoized for the mounted
                        \* gate (line 25), NoConfig when no gate is mounted
  now,
  \* observation
  event,                \* the operation that made the last step
  lastNav,              \* what caused the last navigation to the login route
  navFrom,              \* the path that navigation carried in its state, or "none"
  timedOut,             \* the watchdog fired while an attemptRefresh was outstanding
                        \* and that refresh has not resolved yet
  lastFault,            \* a backend call of the last operation failed
  \* Diagnostic Utilities
  forceAdminFlag,       \* sessionStorage FORCE_ADMIN_ACCESS = 'true'
  report,               \* what the last debugAdminStatus() returned
  fixResult,            \* what the last fixAdminStatus() returned
  toolResult,           \* the last ensureTheamalAdmin(), forceAdminAccessForTesting()
                        \* or isAdminAccessForced() call and what it gave
  utilExit,             \* how the last utility call ended: "returned" or "thrown"
  \* Credential Store
  config,               \* which of the three environment values are configured
  standard,             \* the supabase export: "none" before the module is loaded
  elevated,             \* the adminSupabase export
  roleResult,           \* what the last setAdminRole() returned
  \* Settings and notifications
  settingsTable,        \* the settings table: row id -> settings_data, or Absent
  saves,                \* the calls of the settings-saving functions, by caller
  notifications,        \* the notifications table: row id -> read, or Absent
  \* signInWithExtendedSession
  signPc,               \* "idle", "signOut" (awaiting it) or "signIn" (awaiting it)
  signArgs,             \* the user and whether the password is right
  signCalls,            \* the auth calls the current or last sign-in issued, in order
  signOutcomes,         \* how the calls of signCalls that settled did so, in order
  signResult,           \* what the last sign-in gave its caller
  signPrior             \* the session that was cached when the last sign-in began

backendVars == <<stored, profiles>>
authVars == <<session, isAdmin, loading, netOutstanding>>
gateVars == <<mounted, pathname, refreshing, refreshAttempted, refreshError,
              lastPathRefreshTime, forceComplete, timeoutRef,
              autoWaiting, manualWaiting, diagDebug, diagRefresh,
              diagFix, reloadArmed, sessionConfig>>
obsVars == <<event, lastNav, navFrom, timedOut>>
toolVars == <<toolResult, utilExit>>
utilVars == <<forceAdminFlag, report, fixResult, lastFault, toolVars>>
signVars == <<signPc, signArgs, signCalls, signOutcomes, signResult, signPrior>>
credVars == <<config, standard, elevated, roleResult>>
appVars == <<settingsTable, saves, notifications>>
vars == <<backendVars, authVars, gateVars, now, obsVars, utilVars, signVars, credVars,
          appVars>>

NoLedger == [p \in Paths |-> 0]
NoWaiting == [p \in Paths |-> 0]

RECURSIVE SumOver(_, _)
SumOver(f, S) == IF S = {} THEN 0
                 ELSE LET x == CHOOSE y \in S : TRUE
                      IN f[x] + SumOver(f, S \ {x})

----------------------------------------------------------------------------
(* Render decision of the gate: part_005 lines 153-270 *)

shouldProceedNotLoading(s) == s.forceComplete \/ ~s.loading
shouldProceed(s) == s.forceComplete \/ (~s.loading /\ ~s.refreshing)

View(s) ==
  IF s.session # None /\ (Truthy(s.isAdmin) \/ s.forceComplete) /\ shouldProceed(s)
    THEN "children"
  ELSE IF s.loading \/ s.refreshing
    THEN (IF s.forceComplete THEN "loading_retry" ELSE "loading")
  ELSE IF s.session # None /\ ~Truthy(s.isAdmin)
    THEN "admin_required"
  ELSE IF s.refreshError \/ (s.session = None /\ s.refreshAttempted)
    THEN "session_expired"
  ELSE "redirect"

(* shouldRefreshForPath: part_005 lines 55-59 *)
shouldRefreshForPath(ledger, path, t) ==
  t - ledger[path] > ROUTE_REFRESH_INTERVAL

----------------------------------------------------------------------------
(* Diagnostic Utilities: debugUtils.ts, and verify_admin_access (SQL) *)

(* verify_admin_access: part_012 lines 112-160.  One row; is_admin and     *)
(* user_role are SQL NULL when no profile row exists, and is_admin is NULL *)
(* when the role is NULL.                                                  *)
verify_admin_accessAnyUser(prof, uid) ==
  [ user_exists |-> JTrue,
    is_admin    |-> IF prof[uid] = NoRow \/ prof[uid] = JNull THEN JNull
                    ELSE IF prof[uid] = "admin" THEN JTrue ELSE JFalse,
    user_role   |-> IF prof[uid] = NoRow THEN JNull ELSE prof[uid] ]
verify_admin_access(prof, uid) ==
  [ user_exists |-> IF prof[uid] # NoRow THEN JTrue ELSE JFalse,
    is_admin    |-> IF prof[uid] = NoRow \/ prof[uid] = JNull THEN JNull
                    ELSE IF prof[uid] = "admin" THEN JTrue ELSE JFalse,
    user_role   |-> IF prof[uid] = NoRow THEN JNull ELSE prof[uid] ]

NoRecord == [user_exists |-> JUndef, is_admin |-> JUndef, user_role |-> JUndef]

(* The comparison of debugUtils.ts line 87:                                *)
(* adminCheckData[0].is_admin !== (profileData.role === 'admin'), strict   *)
(* inequality of the verification's is_admin (true, false or null) and a   *)
(* boolean.                                                                *)
inconsistent(check, role) ==
  check.is_admin # (IF role = "admin" THEN JTrue ELSE JFalse)

(* debugAdminStatus: debugUtils.ts lines 7-116.  sessErr, profErr, rpcErr  *)
(* are the failures of getSession(), of the profiles select and of the     *)
(* RPC.  adminCheck is the RPC's row array on the profile-error path       *)
(* (line 62) and its first row on the success path (line 110).  warned     *)
(* says that the call logged the inconsistency warning (line 88).          *)
debugAdminStatusAnyRole(st, prof, sessErr, profErr, rpcErr) ==
  IF sessErr
    THEN [kind |-> "session_error", success |-> JFalse, isAdmin |-> JUndef,
          adminShape |-> "undefined", adminCheck |-> NoRecord, warned |-> FALSE]
  ELSE IF st = None
    THEN [kind |-> "no_session", success |-> JFalse, isAdmin |-> JUndef,
          adminShape |-> "undefined", adminCheck |-> NoRecord, warned |-> FALSE]
  ELSE IF profErr \/ prof[st] = NoRow
    THEN [kind |-> "profile_error", success |-> JFalse, isAdmin |-> JUndef,
          adminShape |-> IF rpcErr THEN "null" ELSE "array",
          adminCheck |-> IF rpcErr THEN NoRecord ELSE verify_admin_access(prof, st),
          warned |-> FALSE]
  ELSE [kind |-> "ok", success |-> JTrue,
        isAdmin |-> IF prof[st] # JNull THEN JTrue ELSE JFalse,
        adminShape |-> IF rpcErr THEN "undefined" ELSE "record",
        adminCheck |-> IF rpcErr THEN NoRecord ELSE verify_admin_access(prof, st),
        warned |-> ~rpcErr /\ inconsistent(verify_admin_access(prof, st), prof[st])]

debugAdminStatus(st, prof, sessErr, profErr, rpcErr) ==
  IF sessErr
    THEN [kind |-> "session_error", success |-> JFalse, isAdmin |-> JUndef,
          adminShape |-> "undefined", adminCheck |-> NoRecord, warned |-> FALSE]
  ELSE IF st = None
    THEN [kind |-> "no_session", success |-> JFalse, isAdmin |-> JUndef,
          adminShape |-> "undefined", adminCheck |-> NoRecord, warned |-> FALSE]
  ELSE IF profErr \/ prof[st] = NoRow
    THEN [kind |-> "profile_error", success |-> JFalse, isAdmin |-> JUndef,
          adminShape |-> IF rpcErr THEN "null" ELSE "array",
          adminCheck |-> IF rpcErr THEN NoRecord ELSE verify_admin_access(prof, st),
          warned |-> FALSE]
  ELSE [kind |-> "ok", success |-> JTrue,
        isAdmin |-> IF prof[st] = "admin" THEN JTrue ELSE JFalse,
        adminShape |-> IF rpcErr THEN "undefined" ELSE "record",
        adminCheck |-> IF rpcErr THEN NoRecord ELSE verify_admin_access(prof, st),
        warned |-> ~rpcErr /\ inconsistent(verify_admin_access(prof, st), prof[st])]

(* result?.adminCheck?.is_admin as a consumer reads it: a property of an   *)
(* array, of null or of undefined is undefined.                            *)
ReadIsAdmin(result) ==
  IF result.adminShape = "record" THEN result.adminCheck.is_admin ELSE JUndef

----------------------------------------------------------------------------
(* Auth Lifecycle Manager (AuthContext) *)

(* Admin-flag derivation: unknown when the profile fetch fails. *)
DeriveAdmin(prof, uid, fetchOk) ==
  IF ~fetchOk \/ prof[uid] = NoRow THEN "unknown"
  ELSE IF prof[uid] = "admin" THEN JTrue ELSE JFalse

(* refreshSession(): a call made while a refresh is in flight joins it.    *)
refreshSessionEager(inFlight) == inFlight + 1
refreshSession(inFlight) == IF inFlight > 0 THEN inFlight ELSE inFlight + 1

----------------------------------------------------------------------------
(* The gate's state as a record, and the commit of a render *)

Cur ==
  [ session |-> session, isAdmin |-> isAdmin, loading |-> loading,
    netOutstanding |-> netOutstanding,
    mounted |-> mounted, pathname |-> pathname,
    refreshing |-> refreshing, refreshAttempted |-> refreshAttempted,
    refreshError |-> refreshError, lastPathRefreshTime |-> lastPathRefreshTime,
    forceComplete |-> forceComplete, timeoutRef |-> timeoutRef,
    autoWaiting |-> autoWaiting, manualWaiting |-> manualWaiting,
    diagDebug |-> diagDebug, diagRefresh |-> diagRefresh,
    diagFix |-> diagFix, reloadArmed |-> reloadArmed,
    sessionConfig |-> sessionConfig,
    navigated |-> "none", timedOut |-> timedOut ]

(* useState initial values: part_005 lines 21-29 *)
Fresh(s, p) ==
  [ s EXCEPT !.mounted = TRUE, !.pathname = p,
             !.refreshing = FALSE, !.refreshAttempted = FALSE,
             !.refreshError = FALSE, !.lastPathRefreshTime = NoLedger,
             !.forceComplete = FALSE, !.timeoutRef = FALSE,
             !.autoWaiting = NoWaiting, !.manualWaiting = NoWaiting ]

(* Guard of the attemptRefresh effect: part_005 line 102 *)
AutoGuardEveryPath(s, t) ==
  /\ ~s.loading
  /\ (s.session = None \/ ~Truthy(s.isAdmin))
  /\ shouldRefreshForPath(s.lastPathRefreshTime, s.pathname, t)
AutoGuard(s, t) ==
  /\ ~s.loading
  /\ (s.session = None \/ ~Truthy(s.isAdmin))
  /\ ~s.refreshAttempted
  /\ shouldRefreshForPath(s.lastPathRefreshTime, s.pathname, t)

(* Guard of runDiagnostic: part_005 line 64 *)
DiagGuard(s) == s.session # None /\ ~Truthy(s.isAdmin) /\ ~s.loading

(* The watchdog effect: part_005 lines 32-52.  When it runs (its            *)
(* dependencies loading or refreshing changed, or the gate just mounted)   *)
(* the cleanup of the previous run clears the timer and a new 8 second     *)
(* timer is set if loading or refreshing; otherwise the timer is as it was. *)
watchdogLoadingOnly(armed, runs, isLoading, isRefreshing) ==
  IF runs THEN isLoading ELSE armed
watchdog(armed, runs, isLoading, isRefreshing) ==
  IF runs THEN isLoading \/ isRefreshing ELSE armed

(* The render of the post-handler state n and its effects, in the order    *)
(* the component declares them: the watchdog effect (lines 32-52), the     *)
(* diagnostic effect (62-96) and the attemptRefresh effect (99-129).  An   *)
(* effect runs when the gate has just mounted or one of its dependencies   *)
(* differs from the previous render.  A render that returns <Navigate>     *)
(* (line 270) leaves the protected route: the gate unmounts after the      *)
(* effects of that render ran, and the state of an unmounted gate is gone. *)
Commit(n, fresh, ev) ==
  LET e1 == n.mounted /\ (fresh \/ n.loading # loading \/ n.refreshing # refreshing)
      e2 == n.mounted /\ (fresh \/ n.session # session \/ n.isAdmin # isAdmin
                                \/ n.loading # loading)
      e3 == n.mounted /\ (fresh \/ n.loading # loading \/ n.session # session
                                \/ n.isAdmin # isAdmin
                                \/ n.refreshAttempted # refreshAttempted
                                \/ n.pathname # pathname)
      runDiag == e2 /\ DiagGuard(n)
      runAuto == e3 /\ AutoGuard(n, now)
      redirect == n.mounted /\ View(n) = "redirect"
      stay == n.mounted /\ ~redirect
      timer == watchdog(n.timeoutRef, e1 \/ (runAuto /\ ~n.refreshing),
                        n.loading, n.refreshing \/ runAuto)
      auto2 == IF runAuto THEN [n.autoWaiting EXCEPT ![n.pathname] = @ + 1]
               ELSE n.autoWaiting
      net2 == IF runAuto THEN refreshSession(n.netOutstanding) ELSE n.netOutstanding
      diag2 == IF runDiag THEN n.diagDebug + 1 ELSE n.diagDebug
  IN /\ SumOver(auto2, Paths) + SumOver(n.manualWaiting, Paths) + diag2 + n.diagRefresh
          + n.diagFix <= MaxTasks
     /\ net2 <= MaxTasks + 1
     /\ session' = n.session
     /\ isAdmin' = n.isAdmin
     /\ loading' = n.loading
     /\ netOutstanding' = net2
     /\ mounted' = stay
     /\ pathname' = IF stay THEN n.pathname ELSE LoginPath
     /\ refreshing' = (stay /\ (n.refreshing \/ runAuto))
     /\ refreshAttempted' = (stay /\ n.refreshAttempted)
     /\ refreshError' = (stay /\ n.refreshError)
     /\ lastPathRefreshTime' = IF stay THEN n.lastPathRefreshTime ELSE NoLedger
     /\ forceComplete' = (stay /\ n.forceComplete)
     /\ timeoutRef' = (stay /\ timer)
     /\ autoWaiting' = IF stay THEN auto2 ELSE NoWaiting
     /\ manualWaiting' = IF stay THEN n.manualWaiting ELSE NoWaiting
     /\ diagDebug' = diag2
     /\ diagRefresh' = n.diagRefresh
     /\ diagFix' = n.diagFix
     /\ reloadArmed' = n.reloadArmed
     /\ sessionConfig' = IF ~stay THEN NoConfig
                         ELSE IF fresh THEN useSessionConfig
                         ELSE n.sessionConfig
     /\ lastNav' = IF redirect THEN "Navigate" ELSE n.navigated
     /\ navFrom' = IF redirect THEN n.pathname ELSE "none"
     /\ timedOut' = n.timedOut
     /\ event' = ev

----------------------------------------------------------------------------
(* Initial state: the application starts; AuthContext is Initializing;     *)
(* the browser may hold a persisted session; no gate is mounted yet.       *)

NoReport == [kind |-> "none", success |-> JUndef, isAdmin |-> JUndef,
             adminShape |-> "undefined", adminCheck |-> NoRecord, warned |-> FALSE]
NoArgs == [user |-> None, passwordOk |-> FALSE]
NoResult == [kind |-> "none", session |-> None, error |-> FALSE]

NoTool == [op |-> "none", value |-> "none", calls |-> {}]

UtilIdle ==
  /\ forceAdminFlag = FALSE /\ report = NoReport /\ fixResult = "none"
  /\ toolResult = NoTool /\ utilExit = "none"
  /\ lastFault = FALSE

(* The dashboard as deployed: URL and public key configured, no           *)
(* administrative secret in the browser; the module has been loaded.       *)
CredLoaded ==
  /\ config = [url |-> TRUE, anonKey |-> TRUE, serviceKey |-> FALSE]
  /\ standard = "handle" /\ elevated = "null" /\ roleResult = "none"

(* Settings and notifications: nothing stored, nothing being saved *)
Absent == "absent"
MaxRows == 2
RowIds == 1..MaxRows
Callers == {"c1", "c2"}
MaxNotifications == 3
NotificationIds == 1..MaxNotifications
NoSave == [pc |-> "idle", value |-> "none", row |-> 0,
           tried |-> <<>>, outcomes |-> <<>>, result |-> "none"]

AppIdle ==
  /\ settingsTable = [i \in RowIds |-> Absent]
  /\ saves = [c \in Callers |-> NoSave]
  /\ notifications = [i \in NotificationIds |-> Absent]

SignIdle ==
  /\ signPc = "idle" /\ signArgs = NoArgs /\ signCalls = <<>>
  /\ signOutcomes = <<>>
  /\ signResult = NoResult /\ signPrior = None

GateIdle ==
  /\ session = None /\ isAdmin = JFalse /\ loading = TRUE
  /\ netOutstanding = 0
  /\ mounted = FALSE /\ pathname = LoginPath
  /\ refreshing = FALSE /\ refreshAttempted = FALSE /\ refreshError = FALSE
  /\ lastPathRefreshTime = NoLedger /\ forceComplete = FALSE
  /\ timeoutRef = FALSE
  /\ autoWaiting = NoWaiting /\ manualWaiting = NoWaiting
  /\ diagDebug = 0 /\ diagRefresh = 0
  /\ diagFix = 0 /\ reloadArmed = FALSE
  /\ sessionConfig = NoConfig
  /\ now = StartNow
  /\ lastNav = "none" /\ navFrom = "none" /\ timedOut = FALSE

Init ==
  /\ stored \in {None, GateUser}
  /\ profiles \in {[u \in Users |-> IF u = GateUser THEN r ELSE "customer"] :
                      r \in {"admin", "customer"}}
  /\ GateIdle /\ UtilIdle /\ SignIdle /\ CredLoaded /\ AppIdle
  /\ event = "init"

----------------------------------------------------------------------------
(* Auth Lifecycle Manager operations *)

(* Initializing -> Authenticated | Unauthenticated *)
AuthInitComplete ==
  /\ loading
  /\ \E fetchOk \in BOOLEAN :
       Commit([Cur EXCEPT !.loading = FALSE,
                          !.session = stored,
                          !.isAdmin = IF stored = None THEN JFalse
                                      ELSE DeriveAdmin(profiles, stored, fetchOk)],
              FALSE, "AuthInitComplete")
  /\ UNCHANGED <<backendVars, now, utilVars, signVars, credVars, appVars>>

(* signIn at the login page: a successful sign-in of the gate's user *)
SignIn ==
  /\ ~mounted /\ ~loading /\ session = None
  /\ stored' = GateUser
  /\ \E fetchOk \in BOOLEAN :
       Commit([Cur EXCEPT !.session = GateUser,
                          !.isAdmin = DeriveAdmin(profiles, GateUser, fetchOk)],
              FALSE, "SignIn")
  /\ UNCHANGED <<profiles, now, utilVars, signVars, credVars, appVars>>

(* signOut: clears session and admin flag, deletes the persisted session *)
SignOut ==
  /\ session # None
  /\ stored' = None
  /\ Commit([Cur EXCEPT !.session = None, !.isAdmin = JFalse], FALSE, "SignOut")
  /\ UNCHANGED <<profiles, now, utilVars, signVars, credVars, appVars>>

(* The periodic background refresh of the Authenticated state *)
BackgroundRefresh ==
  /\ session # None /\ ~loading
  /\ netOutstanding = 0 \/ refreshSession(netOutstanding) # netOutstanding
  /\ Commit([Cur EXCEPT !.netOutstanding = refreshSession(netOutstanding)],
            FALSE, "BackgroundRefresh")
  /\ UNCHANGED <<backendVars, now, utilVars, signVars, credVars, appVars>>

----------------------------------------------------------------------------
(* Gate operations *)

(* The user opens a protected route: the gate mounts with fresh state *)
Mount(p) ==
  /\ ~mounted
  /\ Commit(Fresh(Cur, p), TRUE, "Mount")
  /\ UNCHANGED <<backendVars, now, utilVars, signVars, credVars, appVars>>

(* Navigation between protected routes: location.pathname changes *)
NavigateTo(p) ==
  /\ mounted /\ p # pathname
  /\ Commit([Cur EXCEPT !.pathname = p], FALSE, "NavigateTo")
  /\ UNCHANGED <<backendVars, now, utilVars, signVars, credVars, appVars>>

(* The 8 second timer fires: part_005 lines 40-44 *)
TimeoutFire ==
  /\ mounted /\ timeoutRef
  /\ Commit([Cur EXCEPT !.forceComplete = TRUE, !.refreshing = FALSE,
                        !.timeoutRef = FALSE,
                        !.timedOut = timedOut \/ SumOver(autoWaiting, Paths) > 0],
            FALSE, "TimeoutFire")
  /\ UNCHANGED <<backendVars, now, utilVars, signVars, credVars, appVars>>

(* The views that show the retry and Return-to-Login buttons *)
HasButtons(s) == View(s) \in {"loading_retry", "admin_required", "session_expired"}

(* handleManualRefresh up to its await: part_005 lines 132-137 *)
HandleManualRefresh ==
  /\ mounted /\ HasButtons(Cur)
  /\ Commit([Cur EXCEPT !.refreshing = TRUE, !.refreshError = FALSE,
                        !.forceComplete = FALSE,
                        !.netOutstanding = refreshSession(netOutstanding),
                        !.manualWaiting[pathname] = @ + 1],
            FALSE, "HandleManualRefresh")
  /\ UNCHANGED <<backendVars, now, utilVars, signVars, credVars, appVars>>

(* The Return to Login buttons: part_005 lines 182, 224, 260 *)
ReturnToLogin ==
  /\ mounted /\ HasButtons(Cur)
  /\ Commit([Cur EXCEPT !.mounted = FALSE, !.navigated = "button"],
            FALSE, "ReturnToLogin")
  /\ UNCHANGED <<backendVars, now, utilVars, signVars, credVars, appVars>>

(* attemptRefresh after its await: part_005 lines 108-124 *)
attemptRefreshResumeSilent(s, ok, t) ==
  IF s.autoWaiting = NoWaiting THEN s
  ELSE [s EXCEPT
          !.lastPathRefreshTime =
              [p \in Paths |-> IF ok /\ s.autoWaiting[p] > 0 THEN t ELSE @[p]],
          !.refreshing = FALSE,
          !.refreshAttempted = TRUE,
          !.autoWaiting = NoWaiting]
attemptRefreshResume(s, ok, t) ==
  IF s.autoWaiting = NoWaiting THEN s
  ELSE [s EXCEPT
          !.refreshError = @ \/ ~ok,
          !.lastPathRefreshTime =
              [p \in Paths |-> IF ok /\ s.autoWaiting[p] > 0 THEN t ELSE @[p]],
          !.refreshing = FALSE,
          !.refreshAttempted = TRUE,
          !.autoWaiting = NoWaiting]

(* handleManualRefresh after its await: part_005 lines 138-150 *)
handleManualRefreshResumeCurrentPath(s, ok, t) ==
  IF s.manualWaiting = NoWaiting THEN s
  ELSE [s EXCEPT
          !.lastPathRefreshTime =
              [p \in Paths |-> IF ok /\ p = s.pathname THEN t ELSE @[p]],
          !.refreshing = FALSE,
          !.manualWaiting = NoWaiting]
handleManualRefreshResume(s, ok, t) ==
  IF s.manualWaiting = NoWaiting THEN s
  ELSE [s EXCEPT
          !.lastPathRefreshTime =
              [p \in Paths |-> IF ok /\ s.manualWaiting[p] > 0 THEN t ELSE @[p]],
          !.refreshing = FALSE,
          !.manualWaiting = NoWaiting]

(* runDiagnostic after await refreshSession(): part_005 lines 70-72.  The  *)
(* isAdmin it tests is the one its closure captured, which was not true    *)
(* (line 64), so it always navigates.                                      *)
runDiagnosticResume(s) ==
  IF s.diagRefresh = 0 THEN s
  ELSE [s EXCEPT !.mounted = FALSE, !.navigated = "diagnostic", !.diagRefresh = 0]

(* The admin fix inside runDiagnostic: part_005 lines 75-89.  The source   *)
(* keeps only the handling of the fix's outcome: on an error, or a throw   *)
(* (line 87), a log line; otherwise "Successfully updated role to admin",  *)
(* await refreshSession() (line 80) and a page reload 1000 ms later (lines *)
(* 83-85).  The two conditions that guard the fix (the blocks closed on    *)
(* lines 90-91) are not in the source, so whether a run of the diagnostic  *)
(* reaches the fix is open: fix is "skip", "error" or "ok".  The update is *)
(* made with the stored session, on that user's profile row.               *)
adminFixProfiles(prof, st, fix) ==
  IF fix = "ok" /\ st # None /\ prof[st] # NoRow
    THEN [prof EXCEPT ![st] = "admin"]
    ELSE prof

adminFixStart(s, fix, n) ==
  IF fix = "ok" /\ n > 0
    THEN [s EXCEPT !.diagFix = @ + n,
                   !.netOutstanding = refreshSession(@)]
    ELSE s

(* The diagnostic after the refresh that followed a fix: lines 83-85 *)
adminFixResume(s) ==
  IF s.diagFix = 0 THEN s
  ELSE [s EXCEPT !.reloadArmed = TRUE, !.diagFix = 0]

(* AuthContext when the refresh call settles: Authenticated with the admin *)
(* flag re-derived, or Unauthenticated.                                    *)
AuthRefreshSettles(s, st, prof, ok, fetchOk) ==
  [s EXCEPT !.session = IF ok THEN st ELSE None,
            !.isAdmin = IF ok THEN DeriveAdmin(prof, st, fetchOk) ELSE JFalse,
            !.netOutstanding = @ - 1,
            !.timedOut = FALSE]

(* The refresh in flight resolves.  AuthContext updates its state and every *)
(* caller awaiting refreshSession() continues with the same result.         *)
RefreshResult(ok, fetchOk) ==
  runDiagnosticResume(
    handleManualRefreshResume(
      attemptRefreshResume(
        AuthRefreshSettles(Cur, stored, profiles, ok, fetchOk), ok, now), ok, now))

FixOutcomes == {"skip", "error", "ok"}

RefreshResolve ==
  /\ netOutstanding > 0
  /\ \E ok \in BOOLEAN, fetchOk \in BOOLEAN, fix \in FixOutcomes :
       /\ ok => stored # None
       /\ fix # "skip" => diagRefresh > 0
       /\ fix = "ok" => stored # None
       /\ profiles' = adminFixProfiles(profiles, stored, fix)
       /\ Commit(adminFixStart(adminFixResume(RefreshResult(ok, fetchOk)),
                               fix, diagRefresh),
                 FALSE,
                 IF ok THEN "RefreshResolveTrue" ELSE "RefreshResolveFalse")
  /\ UNCHANGED <<stored, now, utilVars, signVars, credVars, appVars>>

(* runDiagnostic continues after debugAdminStatus(): part_005 lines 66-69 *)
DiagContinue ==
  /\ diagDebug > 0
  /\ \E sessErr \in BOOLEAN, profErr \in BOOLEAN, rpcErr \in BOOLEAN,
        fix \in FixOutcomes :
       LET result == debugAdminStatus(stored, profiles, sessErr, profErr, rpcErr)
           again == Truthy(ReadIsAdmin(result))
           n == [Cur EXCEPT
                    !.diagDebug = diagDebug - 1,
                    !.diagRefresh = IF again THEN diagRefresh + 1 ELSE diagRefresh,
                    !.netOutstanding = IF again THEN refreshSession(netOutstanding)
                                       ELSE netOutstanding]
       IN /\ again => fix = "skip"
          /\ fix = "ok" => stored # None
          /\ profiles' = adminFixProfiles(profiles, stored, fix)
          /\ Commit(adminFixStart(n, fix, 1), FALSE,
                    IF again THEN "DiagRefresh"
                    ELSE IF fix = "ok" THEN "DiagFix" ELSE "DiagDone")
  /\ UNCHANGED <<stored, now, utilVars, signVars, credVars, appVars>>

(* The reload timer fires: window.location.reload() (line 84).  The page   *)
(* starts again: AuthContext initializes, nothing is mounted, and what the *)
(* old page was awaiting is gone.                                          *)
Reload ==
  /\ reloadArmed
  /\ session' = None /\ isAdmin' = JFalse /\ loading' = TRUE
  /\ netOutstanding' = 0
  /\ mounted' = FALSE /\ pathname' = LoginPath
  /\ refreshing' = FALSE /\ refreshAttempted' = FALSE /\ refreshError' = FALSE
  /\ lastPathRefreshTime' = NoLedger /\ forceComplete' = FALSE
  /\ timeoutRef' = FALSE
  /\ autoWaiting' = NoWaiting /\ manualWaiting' = NoWaiting
  /\ diagDebug' = 0 /\ diagRefresh' = 0 /\ diagFix' = 0
  /\ reloadArmed' = FALSE
  /\ sessionConfig' = NoConfig
  /\ lastNav' = "none" /\ navFrom' = "none" /\ timedOut' = FALSE
  /\ event' = "Reload"
  /\ UNCHANGED <<backendVars, now, utilVars, signVars, credVars, appVars>>

(* Four hours pass.   An armed 8 second timer fires before that. *)
Tick ==
  /\ now < StartNow + MaxTicks * TickMs
  /\ ~timeoutRef
  /\ now' = now + TickMs
  /\ event' = "Tick" /\ lastNav' = "none"
  /\ navFrom' = "none"
  /\ UNCHANGED <<backendVars, authVars, gateVars, timedOut, utilVars, signVars, credVars, appVars>>

Next ==
  \/ AuthInitComplete
  \/ SignIn
  \/ SignOut
  \/ BackgroundRefresh
  \/ \E p \in Paths : Mount(p)
  \/ \E p \in Paths : NavigateTo(p)
  \/ TimeoutFire
  \/ HandleManualRefresh
  \/ ReturnToLogin
  \/ RefreshResolve
  \/ DiagContinue
  \/ Reload
  \/ Tick

Spec == Init /\ [][Next]_vars

(* The same, with the timer of the watchdog firing once it is armed: the   *)
(* browser runs a pending setTimeout callback.  Nothing else is assumed to *)
(* happen: the backend may never answer.                                   *)
SpecWatchdog == Init /\ [][Next]_vars /\ WF_vars(TimeoutFire)

----------------------------------------------------------------------------
(* Diagnostic Utilities run from the browser console *)

AllProfiles == [Users -> Roles \cup {NoRow}]

InitDiag ==
  /\ stored \in Users \cup {None}
  /\ profiles \in AllProfiles
  /\ GateIdle /\ UtilIdle /\ SignIdle /\ CredLoaded /\ AppIdle
  /\ event = "init"

(* What the catch blocks of debugAdminStatus (lines 112-115) return *)
CaughtReport == [kind |-> "caught", success |-> JFalse, isAdmin |-> JUndef,
                 adminShape |-> "undefined", adminCheck |-> NoRecord, warned |-> FALSE]

(* debugAdminStatus(): reads only.  A call that throws instead of giving   *)
(* an error result is caught (line 112).                                   *)
DebugAdminStatusOp ==
  /\ \E sessErr \in BOOLEAN, profErr \in BOOLEAN, rpcErr \in BOOLEAN,
        thrown \in BOOLEAN :
       /\ report' = IF thrown THEN CaughtReport
                    ELSE debugAdminStatus(stored, profiles, sessErr, profErr, rpcErr)
       /\ lastFault' = (sessErr \/ profErr \/ rpcErr \/ thrown)
  /\ event' = "debugAdminStatus"
  /\ utilExit' = "returned"
  /\ UNCHANGED <<backendVars, authVars, gateVars, now, lastNav, navFrom, timedOut,
                 toolResult, forceAdminFlag, fixResult, signVars, credVars, appVars>>

(* fixAdminStatus: debugUtils.ts lines 122-156.  The update (lines        *)
(* 138-141) changes the rows whose id is the session user's: none when    *)
(* that user has no profile row, and that is no error.                    *)
fixAdminStatusAllRows(st, prof, sessErr, updErr) ==
  IF sessErr \/ st = None
    THEN [result |-> "must_login", profiles |-> prof]
  ELSE IF updErr
    THEN [result |-> "error", profiles |-> prof]
  ELSE [result |-> "success",
        profiles |-> [u \in Users |-> IF prof[u] = NoRow THEN NoRow ELSE "admin"]]
fixAdminStatus(st, prof, sessErr, updErr) ==
  IF sessErr \/ st = None
    THEN [result |-> "must_login", profiles |-> prof]
  ELSE IF updErr
    THEN [result |-> "error", profiles |-> prof]
  ELSE [result |-> "success",
        profiles |-> [prof EXCEPT ![st] = IF @ = NoRow THEN NoRow ELSE "admin"]]

(* A call that throws is caught (lines 152-155): success false, no write *)
FixAdminStatusOp ==
  /\ \E sessErr \in BOOLEAN, updErr \in BOOLEAN, thrown \in BOOLEAN :
       LET r == IF thrown THEN [result |-> "caught", profiles |-> profiles]
                ELSE fixAdminStatus(stored, profiles, sessErr, updErr)
       IN /\ fixResult' = r.result
          /\ profiles' = r.profiles
          /\ lastFault' = (sessErr \/ updErr \/ thrown)
  /\ event' = "fixAdminStatus"
  /\ utilExit' = "returned"
  /\ UNCHANGED <<stored, authVars, gateVars, now, lastNav, navFrom, timedOut,
                 toolResult, forceAdminFlag, report, signVars, credVars, appVars>>

(* ensureTheamalAdmin: debugUtils.ts lines 162-243.  It acts only for the  *)
(* session of the one user with the fixed e-mail address.  The RPC         *)
(* grant_admin_access (part_012 lines 163-204) upserts the admin profile   *)
(* and its failure is only logged (lines 190-203); the upsert of lines     *)
(* 206-213 follows.  A throw of getSession() or of the upsert is caught    *)
(* (lines 239-242).                                                        *)
TheamalUser == "u1"

(* calls are the backend calls the function issued *)
ensureTheamalAdminAnyUser(st, prof, sessErr, rpcErr, updErr, thrownAt) ==
  IF thrownAt = "getSession"
    THEN [result |-> "caught", profiles |-> prof, calls |-> {"getSession"}]
  ELSE IF sessErr
    THEN [result |-> "session_error", profiles |-> prof, calls |-> {"getSession"}]
  ELSE IF st = None
    THEN [result |-> "no_session", profiles |-> prof, calls |-> {"getSession"}]
  ELSE LET granted == IF rpcErr THEN prof ELSE [prof EXCEPT ![st] = "admin"]
           issued == {"getSession", "grant_admin_access", "upsert"}
       IN IF thrownAt = "upsert"
            THEN [result |-> "caught", profiles |-> granted, calls |-> issued]
          ELSE IF updErr
            THEN [result |-> "error", profiles |-> granted, calls |-> issued]
          ELSE [result |-> "success", profiles |-> [granted EXCEPT ![st] = "admin"],
                calls |-> issued \cup {"verify_admin_access"}]

ensureTheamalAdmin(st, prof, sessErr, rpcErr, updErr, thrownAt) ==
  IF thrownAt = "getSession"
    THEN [result |-> "caught", profiles |-> prof, calls |-> {"getSession"}]
  ELSE IF sessErr
    THEN [result |-> "session_error", profiles |-> prof, calls |-> {"getSession"}]
  ELSE IF st = None
    THEN [result |-> "no_session", profiles |-> prof, calls |-> {"getSession"}]
  ELSE IF st # TheamalUser
    THEN [result |-> "not_theamal", profiles |-> prof, calls |-> {"getSession"}]
  ELSE LET granted == IF rpcErr THEN prof ELSE [prof EXCEPT ![st] = "admin"]
           issued == {"getSession", "grant_admin_access", "upsert"}
       IN IF thrownAt = "upsert"
            THEN [result |-> "caught", profiles |-> granted, calls |-> issued]
          ELSE IF updErr
            THEN [result |-> "error", profiles |-> granted, calls |-> issued]
          ELSE [result |-> "success", profiles |-> [granted EXCEPT ![st] = "admin"],
                calls |-> issued \cup {"verify_admin_access"}]

EnsureTheamalAdminOp ==
  /\ \E sessErr \in BOOLEAN, rpcErr \in BOOLEAN, updErr \in BOOLEAN,
        thrownAt \in {"none", "getSession", "upsert"} :
       LET r == ensureTheamalAdmin(stored, profiles, sessErr, rpcErr, updErr, thrownAt)
       IN /\ toolResult' = [op |-> "ensureTheamalAdmin", value |-> r.result,
                          calls |-> r.calls]
          /\ profiles' = r.profiles
          /\ lastFault' = (sessErr \/ rpcErr \/ updErr \/ thrownAt # "none")
  /\ event' = "ensureTheamalAdmin"
  /\ utilExit' = "returned"
  /\ UNCHANGED <<stored, authVars, gateVars, now, lastNav, navFrom, timedOut,
                 forceAdminFlag, report, fixResult, signVars, credVars, appVars>>

(* forceAdminAccessForTesting: debugUtils.ts lines 249-265.  A storage     *)
(* access that throws is caught and nothing is stored.                     *)
forceAdminAccessForTesting(flag, storageErr) ==
  IF storageErr THEN [result |-> "caught", flag |-> flag]
  ELSE [result |-> "success", flag |-> TRUE]

ForceAdminAccessForTestingOp ==
  /\ \E storageErr \in BOOLEAN :
       LET r == forceAdminAccessForTesting(forceAdminFlag, storageErr)
       IN /\ toolResult' = [op |-> "forceAdminAccessForTesting", value |-> r.result,
                          calls |-> {}]
          /\ forceAdminFlag' = r.flag
          /\ lastFault' = storageErr
  /\ event' = "forceAdminAccessForTesting"
  /\ utilExit' = "returned"
  /\ UNCHANGED <<backendVars, authVars, gateVars, now, lastNav, navFrom, timedOut,
                 report, fixResult, signVars, credVars, appVars>>

(* isAdminAccessForced: debugUtils.ts lines 270-275.  No try/catch: a      *)
(* storage access that throws reaches the caller.                          *)
isAdminAccessForced(flag, storageErr) ==
  IF storageErr THEN "thrown"
  ELSE IF flag THEN JTrue ELSE JFalse

IsAdminAccessForcedOp ==
  /\ \E storageErr \in BOOLEAN :
       LET r == isAdminAccessForced(forceAdminFlag, storageErr)
       IN /\ toolResult' = [op |-> "isAdminAccessForced", value |-> r, calls |-> {}]
          /\ utilExit' = IF r = "thrown" THEN "thrown" ELSE "returned"
          /\ lastFault' = storageErr
  /\ event' = "isAdminAccessForced"
  /\ UNCHANGED <<backendVars, authVars, gateVars, now, lastNav, navFrom, timedOut,
                 forceAdminFlag, report, fixResult, signVars, credVars, appVars>>

(* Another actor changes the data: a sign-in or sign-out in this browser, *)
(* or a write to a profile row (the profile-creating trigger, an          *)
(* operator).                                                             *)
SessionChanges(u) ==
  /\ stored # u
  /\ stored' = u
  /\ event' = "SessionChanges" /\ lastFault' = FALSE
  /\ UNCHANGED <<profiles, authVars, gateVars, now, lastNav, navFrom, timedOut,
                 toolVars, forceAdminFlag, report, fixResult, signVars, credVars, appVars>>

ProfileChanges(u, r) ==
  /\ profiles[u] # r
  /\ profiles' = [profiles EXCEPT ![u] = r]
  /\ event' = "ProfileChanges" /\ lastFault' = FALSE
  /\ UNCHANGED <<stored, authVars, gateVars, now, lastNav, navFrom, timedOut,
                 toolVars, forceAdminFlag, report, fixResult, signVars, credVars, appVars>>

NextDiag ==
  \/ DebugAdminStatusOp
  \/ FixAdminStatusOp
  \/ \E u \in Users \cup {None} : SessionChanges(u)
  \/ \E u \in Users, r \in Roles \cup {NoRow} : ProfileChanges(u, r)

SpecDiag == InitDiag /\ [][NextDiag]_vars

(* The gate in a tab in which the testing flag may be set from the console *)
NextBypass ==
  \/ ForceAdminAccessForTestingOp
  \/ IsAdminAccessForcedOp
  \/ AuthInitComplete
  \/ \E p \in Paths : Mount(p)
  \/ TimeoutFire
  \/ RefreshResolve
  \/ DiagContinue
  \/ Reload

SpecBypass == Init /\ [][NextBypass]_vars

(* All five utilities, called in any order in one browser tab *)
InitTools ==
  /\ stored \in Users \cup {None}
  /\ profiles \in {[u \in Users |-> IF u = TheamalUser THEN r ELSE "customer"] :
                      r \in Roles \cup {NoRow}}
  /\ GateIdle /\ UtilIdle /\ SignIdle /\ CredLoaded /\ AppIdle
  /\ event = "init"

NextTools ==
  \/ DebugAdminStatusOp
  \/ FixAdminStatusOp
  \/ EnsureTheamalAdminOp
  \/ ForceAdminAccessForTestingOp
  \/ IsAdminAccessForcedOp

SpecTools == InitTools /\ [][NextTools]_vars

----------------------------------------------------------------------------
(* signInWithExtendedSession: supabase.ts lines 120-152 *)

InitSignIn ==
  /\ stored \in Users \cup {None}
  /\ profiles = [u \in Users |-> "customer"]
  /\ GateIdle /\ UtilIdle /\ SignIdle /\ CredLoaded /\ AppIdle
  /\ event = "init"

(* The call, up to the await of supabase.auth.signOut() (line 125) *)
SignInBegin(u, pw) ==
  /\ signPc = "idle"
  /\ signPc' = "signOut"
  /\ signArgs' = [user |-> u, passwordOk |-> pw]
  /\ signCalls' = <<"signOut">>
  /\ signOutcomes' = <<>>
  /\ signResult' = NoResult
  /\ signPrior' = stored
  /\ event' = "SignInBegin" /\ lastFault' = FALSE
  /\ UNCHANGED <<backendVars, authVars, gateVars, now, lastNav, navFrom, timedOut,
                 toolVars, forceAdminFlag, report, fixResult, credVars, appVars>>

(* How the function goes on when signOut() settles.  Its result is not    *)
(* read (line 125); a rejection reaches the catch, which rethrows         *)
(* (lines 148-151).                                                       *)
AfterSignOut(outcome, calls) ==
  IF outcome = "throw"
    THEN [pc |-> "idle", calls |-> calls,
          result |-> [kind |-> "thrown", session |-> None, error |-> TRUE]]
    ELSE [pc |-> "signIn", calls |-> Append(calls, "signInWithPassword"),
          result |-> NoResult]

(* supabase.auth.signOut() settles: it removed the cached session, or it  *)
(* failed (an error result, or a rejection).  A failed sign-out may leave *)
(* the cached session in place.                                           *)
SignOutSettles ==
  /\ signPc = "signOut"
  /\ \E outcome \in {"ok", "error", "throw"}, keeps \in BOOLEAN :
       LET r == AfterSignOut(outcome, signCalls)
       IN /\ outcome = "ok" => ~keeps
          /\ stored' = IF keeps THEN stored ELSE None
          /\ signPc' = r.pc
          /\ signCalls' = r.calls
          /\ signResult' = r.result
          /\ signOutcomes' = Append(signOutcomes, outcome)
          /\ lastFault' = (outcome # "ok")
  /\ event' = "SignOutSettles"
  /\ UNCHANGED <<profiles, authVars, gateVars, now, lastNav, navFrom, timedOut,
                 toolVars, forceAdminFlag, report, fixResult, signArgs, signPrior,
                 credVars, appVars>>

(* What the function gives its caller when signInWithPassword() settles:  *)
(* the result object (line 147), or the rethrown error (line 150).        *)
AfterSignInThrowsOnError(outcome, u) ==
  IF outcome = "ok"
    THEN [kind |-> "returned", session |-> u, error |-> FALSE]
    ELSE [kind |-> "thrown", session |-> None, error |-> TRUE]
AfterSignIn(outcome, u) ==
  IF outcome = "throw"
    THEN [kind |-> "thrown", session |-> None, error |-> TRUE]
  ELSE IF outcome = "ok"
    THEN [kind |-> "returned", session |-> u, error |-> FALSE]
  ELSE [kind |-> "returned", session |-> None, error |-> TRUE]

(* supabase.auth.signInWithPassword() settles: a new session is cached,   *)
(* or the call failed (bad credentials or a network failure, as an error  *)
(* result or a rejection) and the cache is as it was.                     *)
SignInSettles ==
  /\ signPc = "signIn"
  /\ \E outcome \in {"ok", "error", "throw"} :
       /\ outcome = "ok" => signArgs.passwordOk
       /\ stored' = IF outcome = "ok" THEN signArgs.user ELSE stored
       /\ signResult' = AfterSignIn(outcome, signArgs.user)
       /\ signOutcomes' = Append(signOutcomes, outcome)
       /\ lastFault' = (outcome # "ok")
  /\ signPc' = "idle"
  /\ event' = "SignInSettles"
  /\ UNCHANGED <<profiles, authVars, gateVars, now, lastNav, navFrom, timedOut,
                 toolVars, forceAdminFlag, report, fixResult, signArgs, signCalls,
                 signPrior, credVars, appVars>>

NextSignIn ==
  \/ \E u \in Users, pw \in BOOLEAN : SignInBegin(u, pw)
  \/ SignOutSettles
  \/ SignInSettles

SpecSignIn == InitSignIn /\ [][NextSignIn]_vars

----------------------------------------------------------------------------
(* Credential Store: the two client handles of supabase.ts, and the        *)
(* privileged repair of the admin setup script (part_000)                  *)

Configs == [url : BOOLEAN, anonKey : BOOLEAN, serviceKey : BOOLEAN]

(* createClient of @supabase/supabase-js, imported on supabase.ts line 1:  *)
(* it requires a URL and a key and throws "supabaseUrl is required." or    *)
(* "supabaseKey is required." when one of them is empty or undefined.      *)
(* hasUrl and hasKey say whether the argument is a non-empty string.       *)
createClient(hasUrl, hasKey) ==
  IF hasUrl /\ hasKey THEN "handle" ELSE "throws"

(* Evaluation of the module supabase.ts: lines 43-61 build the standard    *)
(* handle from `supabaseUrl || ''` and `supabaseAnonKey || ''`; lines 86-93 *)
(* build the elevated handle from supabaseUrl and the service key when     *)
(* that key is set, and export null otherwise.  A throw ends the           *)
(* evaluation: the exports after it are never made.                        *)
loadCredentialStore(cfg) ==
  LET std == createClient(cfg.url, cfg.anonKey)
  IN [standard |-> std,
      elevated |-> IF std = "throws" THEN "none"
                   ELSE IF cfg.serviceKey THEN createClient(cfg.url, TRUE)
                   ELSE "null"]

LoadCredentialStore ==
  /\ standard = "none"
  /\ LET r == loadCredentialStore(config)
     IN /\ standard' = r.standard
        /\ elevated' = r.elevated
  /\ event' = "LoadCredentialStore"
  /\ UNCHANGED <<backendVars, authVars, gateVars, now, lastNav, navFrom, timedOut,
                 utilVars, signVars, config, roleResult, appVars>>

(* The setup script's elevated handle: part_000 lines 16-33.  Its URL has  *)
(* a built-in fallback, so the handle is there exactly when the service    *)
(* key is set.                                                             *)
adminClient(cfg) == IF cfg.serviceKey THEN createClient(TRUE, TRUE) ELSE "null"

(* setAdminRole: part_000 lines 116-142 *)
setAdminRole(client, prof, userId, updErr, thrown) ==
  IF client = "null"
    THEN [result |-> JFalse, profiles |-> prof]
  ELSE IF updErr \/ thrown
    THEN [result |-> JFalse, profiles |-> prof]
  ELSE [result |-> JTrue,
        profiles |-> [prof EXCEPT ![userId] = IF @ = NoRow THEN NoRow ELSE "admin"]]

SetAdminRoleOp(userId) ==
  /\ \E updErr \in BOOLEAN, thrown \in BOOLEAN :
       LET r == setAdminRole(adminClient(config), profiles, userId, updErr, thrown)
       IN /\ roleResult' = r.result
          /\ profiles' = r.profiles
          /\ lastFault' = (updErr \/ thrown)
  /\ event' = "setAdminRole"
  /\ UNCHANGED <<stored, authVars, gateVars, now, lastNav, navFrom, timedOut,
                 toolVars, forceAdminFlag, report, fixResult, signVars,
                 config, standard, elevated, appVars>>

InitCred ==
  /\ config \in Configs
  /\ standard = "none" /\ elevated = "none" /\ roleResult = "none"
  /\ stored = None
  /\ profiles \in AllProfiles
  /\ GateIdle /\ UtilIdle /\ SignIdle /\ AppIdle
  /\ event = "init"

NextCred ==
  \/ LoadCredentialStore
  \/ \E u \in Users : SetAdminRoleOp(u)

SpecCred == InitCred /\ [][NextCred]_vars

----------------------------------------------------------------------------
(* Saving the settings: database.types.ts lines 454-625.  Each of the      *)
(* three functions is asynchronous; a step is the part of a call between   *)
(* two awaits, and calls of several callers (two tabs, two clicks)         *)
(* interleave at the awaits.                                               *)

SettingsValues == {"s1", "s2"}
RowsOf(t) == {i \in RowIds : t[i] # Absent}
Chain == <<"edge", "rpc", "plain">>
othersUnchanged == <<backendVars, authVars, gateVars, now, lastNav, navFrom, timedOut,
                     utilVars, signVars, credVars>>

(* update_settings(settings_json): part_014 lines 663-739.  It updates the *)
(* row its SELECT ... LIMIT 1 found, row r, or inserts a row when it found *)
(* none.                                                                   *)
update_settings(t, r, v) ==
  IF RowsOf(t) = {}
    THEN [t EXCEPT ![CHOOSE i \in RowIds : TRUE] = v]
    ELSE [t EXCEPT ![r] = v]

(* A method of the chain ended for caller c: what the call goes on with.   *)
(* ok: the method reported success.  Otherwise the error was caught and    *)
(* the next function is called (lines 479 and 623), or, in saveSettings,   *)
(* the failure is returned (lines 527-530).                                *)
Succeeded(sv, message) ==
  [sv EXCEPT !.pc = "idle", !.outcomes = Append(@, "ok"), !.result = message]
FallBack(sv, method, nextPc) ==
  [sv EXCEPT !.pc = nextPc, !.outcomes = Append(@, "failed"),
             !.tried = Append(@, method)]
Failed(sv) ==
  [sv EXCEPT !.pc = "idle", !.outcomes = Append(@, "failed"), !.result = "failed"]

(* One of the three functions is called *)
SaveBegin(c, v, entry) ==
  /\ saves[c].pc = "idle"
  /\ saves' = [saves EXCEPT ![c] =
                 [pc |-> IF entry = "edge" THEN "getSession"
                         ELSE IF entry = "rpc" THEN "rpc" ELSE "select",
                  value |-> v, row |-> 0, tried |-> <<entry>>,
                  outcomes |-> <<>>, result |-> "none"]]
  /\ event' = "SaveBegin"
  /\ UNCHANGED <<othersUnchanged, settingsTable, notifications>>

(* saveSettingsViaEdgeFunction after getSession(): lines 587-597 *)
EdgeSessionSettles(c) ==
  /\ saves[c].pc = "getSession"
  /\ \E outcome \in {"session", "no_session", "error", "throw"} :
       /\ outcome = "session" => stored # None
       /\ outcome = "no_session" => stored = None
       /\ saves' = [saves EXCEPT ![c] =
                      IF outcome = "session" THEN [@ EXCEPT !.pc = "fetch"]
                      ELSE FallBack(@, "rpc", "rpc")]
  /\ event' = "EdgeSessionSettles"
  /\ UNCHANGED <<othersUnchanged, settingsTable, notifications>>

(* saveSettingsViaEdgeFunction after fetch(): lines 600-624.  The function *)
(* behind the URL stores the settings when it answers with success.        *)
EdgeFetchSettles(c) ==
  /\ saves[c].pc = "fetch"
  /\ \E outcome \in {"ok", "notok", "reject"}, r \in RowIds :
       /\ RowsOf(settingsTable) # {} => r \in RowsOf(settingsTable)
       /\ settingsTable' = IF outcome = "ok"
                             THEN update_settings(settingsTable, r, saves[c].value)
                             ELSE settingsTable
       /\ saves' = [saves EXCEPT ![c] =
                      IF outcome = "ok" THEN Succeeded(@, "edge_saved")
                      ELSE FallBack(@, "rpc", "rpc")]
  /\ event' = "EdgeFetchSettles"
  /\ UNCHANGED <<othersUnchanged, notifications>>

(* saveSettingsDirect after supabase.rpc('update_settings'): lines         *)
(* 463-480.  The RPC catches every SQL error and returns it as its data    *)
(* (part_014 lines 697-700, 711-714, 733-738): outcome "caught", for which *)
(* the client sees no error.  outcome "error" is an error the client gets  *)
(* (the call was refused or did not arrive), "throw" a rejected call.      *)
saveSettingsDirectResume(sv, outcome) ==
  IF outcome \in {"ok", "caught"}
    THEN [sv EXCEPT !.pc = "idle",
                    !.outcomes = Append(@, IF outcome = "ok" THEN "ok" ELSE "failed"),
                    !.result = "rpc_saved"]
    ELSE FallBack(sv, "plain", "select")

RpcSettles(c) ==
  /\ saves[c].pc = "rpc"
  /\ \E outcome \in {"ok", "caught", "error", "throw"}, r \in RowIds :
       /\ RowsOf(settingsTable) # {} => r \in RowsOf(settingsTable)
       /\ settingsTable' = IF outcome = "ok"
                             THEN update_settings(settingsTable, r, saves[c].value)
                             ELSE settingsTable
       /\ saves' = [saves EXCEPT ![c] = saveSettingsDirectResume(@, outcome)]
  /\ event' = "RpcSettles"
  /\ UNCHANGED <<othersUnchanged, notifications>>

(* saveSettings after the select: lines 490-512.  data[0] is row r. *)
SelectSettles(c) ==
  /\ saves[c].pc = "select"
  /\ \E outcome \in {"rows", "error", "throw"}, r \in RowIds :
       /\ RowsOf(settingsTable) # {} => r \in RowsOf(settingsTable)
       /\ saves' = [saves EXCEPT ![c] =
                      IF outcome # "rows" THEN Failed(@)
                      ELSE IF RowsOf(settingsTable) = {}
                        THEN [@ EXCEPT !.pc = "insert"]
                        ELSE [@ EXCEPT !.pc = "update", !.row = r]]
  /\ event' = "SelectSettles"
  /\ UNCHANGED <<othersUnchanged, settingsTable, notifications>>

(* saveSettings after the update: lines 501-511 *)
UpdateSettles(c) ==
  /\ saves[c].pc = "update"
  /\ \E outcome \in {"ok", "error", "throw"} :
       /\ settingsTable' = IF outcome = "ok"
                             THEN [settingsTable EXCEPT ![saves[c].row] = saves[c].value]
                             ELSE settingsTable
       /\ saves' = [saves EXCEPT ![c] =
                      IF outcome = "ok" THEN Succeeded(@, "updated") ELSE Failed(@)]
  /\ event' = "UpdateSettles"
  /\ UNCHANGED <<othersUnchanged, notifications>>

(* saveSettings after the insert: lines 514-523.  The table has no         *)
(* constraint that limits it to one row (part_014 lines 244-249).          *)
InsertSettles(c) ==
  /\ saves[c].pc = "insert"
  /\ \E outcome \in {"ok", "error", "throw"} :
       /\ outcome = "ok" => RowsOf(settingsTable) # RowIds
       /\ settingsTable' =
            IF outcome = "ok"
              THEN [settingsTable EXCEPT
                      ![CHOOSE i \in RowIds : settingsTable[i] = Absent] = saves[c].value]
              ELSE settingsTable
       /\ saves' = [saves EXCEPT ![c] =
                      IF outcome = "ok" THEN Succeeded(@, "created") ELSE Failed(@)]
  /\ event' = "InsertSettles"
  /\ UNCHANGED <<othersUnchanged, notifications>>

(* The database holds no settings row yet, or one *)
InitSettings ==
  /\ stored \in {None, GateUser}
  /\ profiles = [u \in Users |-> "admin"]
  /\ GateIdle /\ UtilIdle /\ SignIdle /\ CredLoaded
  /\ settingsTable \in {t \in [RowIds -> SettingsValues \cup {Absent}] :
                          RowsOf(t) \in {{}, {1}}}
  /\ saves = [c \in Callers |-> NoSave]
  /\ notifications = [i \in NotificationIds |-> Absent]
  /\ event = "init"

NextSettings ==
  \/ \E c \in Callers, v \in SettingsValues, entry \in {"edge", "rpc", "plain"} :
        SaveBegin(c, v, entry)
  \/ \E c \in Callers : EdgeSessionSettles(c)
  \/ \E c \in Callers : EdgeFetchSettles(c)
  \/ \E c \in Callers : RpcSettles(c)
  \/ \E c \in Callers : SelectSettles(c)
  \/ \E c \in Callers : UpdateSettles(c)
  \/ \E c \in Callers : InsertSettles(c)

SpecSettings == InitSettings /\ [][NextSettings]_vars

----------------------------------------------------------------------------
(* The notifications table and its trigger: part_010 lines 44-55 and       *)
(* 126-159 (the same function in 02_features.sql lines 193-225).  The      *)
(* column read is BOOLEAN DEFAULT false and may be NULL.                   *)

ReadValues == {JTrue, JFalse, JNull}

(* preserve_notification_read_status(): the value of NEW.read the trigger  *)
(* returns.  With NEW.read NULL the condition OLD.read = TRUE AND          *)
(* NEW.read = FALSE is NULL and the branch is not taken.                   *)
preserve_notification_read_status(op, oldRead, newRead) ==
  IF op = "INSERT" THEN newRead
  ELSE IF op = "UPDATE" /\ oldRead = JTrue /\ newRead = JFalse THEN JTrue
  ELSE newRead

(* INSERT INTO notifications: the trigger is BEFORE UPDATE only, and the   *)
(* function returns NEW for an INSERT.                                     *)
InsertNotification(i, r) ==
  /\ notifications[i] = Absent
  /\ notifications' = [notifications EXCEPT ![i] = r]
  /\ event' = "InsertNotification"
  /\ UNCHANGED <<othersUnchanged, settingsTable, saves>>

(* UPDATE notifications SET read = r WHERE id = i *)
UpdateNotification(i, r) ==
  /\ notifications[i] # Absent
  /\ notifications' =
       [notifications EXCEPT
          ![i] = preserve_notification_read_status("UPDATE", notifications[i], r)]
  /\ event' = "UpdateNotification"
  /\ UNCHANGED <<othersUnchanged, settingsTable, saves>>

InitNotifications ==
  /\ stored = None
  /\ profiles = [u \in Users |-> "customer"]
  /\ GateIdle /\ UtilIdle /\ SignIdle /\ CredLoaded /\ AppIdle
  /\ event = "init"

NextNotifications ==
  \/ \E i \in NotificationIds, r \in ReadValues : InsertNotification(i, r)
  \/ \E i \in NotificationIds, r \in ReadValues : UpdateNotification(i, r)

SpecNotifications == InitNotifications /\ [][NextNotifications]_vars

----------------------------------------------------------------------------
(* Claims about the Protected Route Gate *)

AutoOutstanding == SumOver(autoWaiting, Paths)
RefreshWaiters ==
  SumOver(autoWaiting, Paths) + SumOver(manualWaiting, Paths) + diagRefresh + diagFix
Resolved(e) == e \in {"RefreshResolveTrue", "RefreshResolveFalse"}

(* C1: the gate renders the protected content if and only if a session is  *)
(* present with the admin flag true, or the test-bypass flag is set; never  *)
(* while the admin flag is false, also after the watchdog has fired.        *)
C1_ChildrenIffAdminOrBypass ==
  mounted =>
    ((View(Cur) = "children") <=>
       ((session # None /\ isAdmin = JTrue) \/ forceAdminFlag))

(* C3: the mount effect never starts a second attemptRefresh while an       *)
(* earlier one has not yet set refreshAttempted: at most one automatic      *)
(* attempt is outstanding, whatever the interleaving of path changes.       *)
C3_OneAutomaticAttempt == AutoOutstanding <= 1

(* C4: when the watchdog fires the gate stays on the route and offers the   *)
(* manual retry and Return-to-Login actions; it neither renders the         *)
(* protected content for a session whose admin flag is not true nor         *)
(* redirects to login.                                                      *)
C4_WatchdogOffersRetry ==
  event = "TimeoutFire" =>
    /\ mounted /\ lastNav = "none"
    /\ View(Cur) = "children" => isAdmin = JTrue
    /\ View(Cur) # "children" => HasButtons(Cur)

(* C5: a refresh result that arrives after the watchdog fired is applied to *)
(* the gate's state and starts neither another refreshSession() call nor a  *)
(* redirect to login.                                                       *)
C5_LateResultApplied ==
  [][(timedOut /\ Resolved(event')) =>
        /\ mounted' /\ ~refreshing' /\ refreshAttempted'
        /\ (event' = "RefreshResolveFalse" => refreshError')
        /\ netOutstanding' = 0
        /\ lastNav' = "none"]_vars


----------------------------------------------------------------------------
(* Claims about the Diagnostic Utilities *)

Inspected == event = "debugAdminStatus"

(* C6: for every profile state of the current user, debugAdminStatus()      *)
(* reports isAdmin true exactly when the role is "admin" and isAdmin false  *)
(* for every other role, a null role and an absent profile row included.    *)
C6_IsAdminIffRoleAdmin ==
  (Inspected /\ stored # None /\ ~lastFault) =>
     report.isAdmin = IF profiles[stored] = "admin" THEN JTrue ELSE JFalse

(* C6, as amended: isAdmin is true exactly when the profile fetch succeeds  *)
(* and the role is "admin"; a fetched profile with any other role, null     *)
(* included, gives isAdmin false; an absent row or a failed fetch gives a   *)
(* failure report without an isAdmin field.                                 *)
C6_IsAdminFollowsFetchedRole ==
  Inspected =>
    /\ report.kind = "ok" =>
         /\ stored # None /\ profiles[stored] # NoRow
         /\ report.success = JTrue
         /\ report.isAdmin = IF profiles[stored] = "admin" THEN JTrue ELSE JFalse
    /\ report.kind # "ok" => (report.success = JFalse /\ report.isAdmin = JUndef)
    /\ (stored # None /\ ~lastFault /\ profiles[stored] # NoRow) => report.kind = "ok"
    /\ (stored # None /\ profiles[stored] = NoRow) => report.kind # "ok"

C6_Witness ==
  /\ Inspected /\ stored # None /\ ~lastFault
  /\ profiles[stored] = NoRow
  /\ report.success = JFalse /\ report.isAdmin = JUndef

(* C7: with an active session, whenever fixAdminStatus() returns success an *)
(* immediately following debugAdminStatus() reports isAdmin true, whatever  *)
(* the profile state before (admin, customer, null, or no row).             *)
C7_RepairThenInspect ==
  [][(event = "fixAdminStatus" /\ fixResult = "success"
        /\ event' = "debugAdminStatus" /\ ~lastFault')
       => report'.isAdmin = JTrue]_vars

----------------------------------------------------------------------------
(* Claims about signInWithExtendedSession *)

SignInDone == signPc = "idle" /\ signResult.kind # "none"
LastOutcome == signOutcomes[Len(signOutcomes)]

(* C9: the sign-out of any prior session is issued before the password      *)
(* call, so that after a failed sign-in no previously cached session is      *)
(* left and after a successful one the only session is the new one.         *)
C9_SignOutFirstNoStaleSession ==
  /\ (Len(signCalls) > 0 => signCalls[1] = "signOut")
  /\ (\A i \in 1..Len(signCalls) : signCalls[i] = "signInWithPassword" => i = 2)
  /\ (SignInDone /\ signResult.kind = "returned" /\ signResult.error) => stored = None
  /\ (SignInDone /\ signResult.kind = "returned" /\ ~signResult.error) =>
        stored = signArgs.user

(* C10: a failure during sign-in, in the sign-out or in the sign-in call,   *)
(* is given to the caller as a structured result and is never thrown.       *)
C10_FailureIsStructured ==
  SignInDone => signResult.kind = "returned"

(* C10, as amended: a failure the auth client returns as an error result is *)
(* given to the caller as the structured result; an error that the sign-out *)
(* or the sign-in call throws is rethrown to the caller.                    *)
C10_ThrownOnlyWhenCallThrows ==
  SignInDone =>
    /\ signResult.kind = "thrown" <=> LastOutcome = "throw"
    /\ LastOutcome = "error" =>
         signResult = [kind |-> "returned", session |-> None, error |-> TRUE]
    /\ LastOutcome = "ok" =>
         signResult = [kind |-> "returned", session |-> signArgs.user, error |-> FALSE]

C10_Witness ==
  /\ SignInDone /\ signResult.kind = "thrown"
  /\ signCalls = <<"signOut", "signInWithPassword">>
  /\ signOutcomes = <<"ok", "throw">>

----------------------------------------------------------------------------
(* Claims about the failure semantics of the Diagnostic Utilities *)

(* C11: every Diagnostic Utilities operation (debugAdminStatus,             *)
(* fixAdminStatus, ensureTheamalAdmin, forceAdminAccessForTesting,          *)
(* isAdminAccessForced) catches the errors of its backend and storage       *)
(* calls and returns a result; none of them ends by throwing.               *)
C11_UtilitiesNeverThrow ==
  /\ utilExit # "thrown"
  /\ (event = "debugAdminStatus" /\ report.kind = "caught") => report.success = JFalse
  /\ toolResult.value # "thrown"

----------------------------------------------------------------------------
(* Claims about the gate's failure handling, redirects and ledger *)

ManualOutstanding == SumOver(manualWaiting, Paths)

(* C12: a gate-initiated refresh (automatic, manual or from the diagnostic  *)
(* effect) that fails is mapped to the gate's failure state: whenever a     *)
(* refresh some gate caller awaits resolves as failed and the gate stays    *)
(* mounted, refreshError is set and refreshing is cleared.                  *)
C12_RefreshFailureMapped ==
  [][(event' = "RefreshResolveFalse" /\ RefreshWaiters > 0 /\ mounted')
       => (refreshError' /\ ~refreshing')]_vars

(* C13: with no session after a refresh that was attempted and failed the   *)
(* gate redirects to the login route (it does not stay mounted), and every  *)
(* navigation to login the gate makes carries the requested path.           *)
C13_RedirectCarriesPath ==
  /\ ~(mounted /\ ~loading /\ ~refreshing /\ session = None
         /\ refreshAttempted /\ refreshError)
  /\ lastNav # "none" => navFrom \in Paths

(* C14: the "Admin Access Required" view is shown only when the admin flag  *)
(* is confirmed false; while the flag is unknown (the profile fetch failed) *)
(* the gate does not show that view.                                        *)
C14_AdminRequiredOnlyWhenConfirmed ==
  (mounted /\ View(Cur) = "admin_required") => isAdmin = JFalse

GateWaiters(p) == autoWaiting[p] + manualWaiting[p]

(* C15: a successful refresh (automatic or manual) records the time in the  *)
(* ledger against the path that is current when the refresh completes and   *)
(* leaves every other entry unchanged; a failed refresh leaves the whole    *)
(* ledger unchanged.                                                        *)
C15_LedgerRecordsCurrentPath ==
  [][(Resolved(event') /\ mounted /\ mounted') =>
       lastPathRefreshTime' =
         IF event' = "RefreshResolveTrue" /\ (\E p \in Paths : GateWaiters(p) > 0)
           THEN [lastPathRefreshTime EXCEPT ![pathname'] = now]
           ELSE lastPathRefreshTime]_vars

(* C15, as amended: a successful refresh records the time against the path  *)
(* that was current when that refresh was started, for every automatic or   *)
(* manual attempt awaiting it, and leaves every other entry unchanged; a    *)
(* failed refresh, and every other step of a mounted gate, leaves the       *)
(* whole ledger unchanged.                                                  *)
C15_LedgerRecordsStartPath ==
  [][(mounted /\ mounted') =>
       lastPathRefreshTime' =
         [p \in Paths |->
            IF event' = "RefreshResolveTrue" /\ GateWaiters(p) > 0
              THEN now ELSE lastPathRefreshTime[p]]]_vars

C15_Witness ==
  /\ event = "RefreshResolveTrue" /\ mounted
  /\ \E p \in Paths : /\ p # pathname
                       /\ lastPathRefreshTime[p] = now
                       /\ lastPathRefreshTime[pathname] = 0

----------------------------------------------------------------------------
(* Claims about the repair and the inspection of a profile *)

Repaired == event = "fixAdminStatus"

(* C17: fixAdminStatus() needs an active session: without one, or when a    *)
(* call of it fails, it writes nothing and does not return success; with    *)
(* one it sets role "admin" on the profile of the current user and changes  *)
(* no other profile.                                                        *)
C17_RepairNeedsSessionWritesOwnRow ==
  [][event' = "fixAdminStatus" =>
       /\ (stored = None \/ lastFault') =>
             (fixResult' # "success" /\ profiles' = profiles)
       /\ (stored # None /\ ~lastFault') =>
             /\ fixResult' = "success"
             /\ profiles[stored] # NoRow => profiles'[stored] = "admin"
       /\ \A u \in Users : u # stored => profiles'[u] = profiles[u]]_vars

C17_Witness ==
  /\ Repaired /\ fixResult = "success" /\ stored # None
  /\ profiles[stored] = "admin"
  /\ \E u \in Users : u # stored /\ profiles[u] = "customer"

(* C18: for a signed-in user without a profile row, debugAdminStatus()      *)
(* throws nothing and returns a failure report whose admin flag is not      *)
(* true; when the secondary verification answers, its payload says          *)
(* user_exists = false.                                                     *)
C18_NoProfileRowIsReportedNotThrown ==
  (Inspected /\ stored # None /\ profiles[stored] = NoRow) =>
     /\ utilExit = "returned"
     /\ report.success = JFalse
     /\ report.isAdmin # JTrue
     /\ ~lastFault =>
          /\ report.adminShape = "array"
          /\ report.adminCheck.user_exists = JFalse
          /\ report.adminCheck.is_admin # JTrue

C18_Witness ==
  /\ Inspected /\ stored # None /\ profiles[stored] = NoRow /\ ~lastFault
  /\ utilExit = "returned"
  /\ report.kind = "profile_error"
  /\ report.adminCheck.user_exists = JFalse

----------------------------------------------------------------------------
(* Claims about the testing flag *)

AsVerifiedAdmin == [Cur EXCEPT !.isAdmin = JTrue]

(* C19: once forceAdminAccessForTesting() has set the flag no operation     *)
(* clears it and isAdminAccessForced() reads true (false while it was never *)
(* set); while the flag is set the gate renders for a session holder what   *)
(* it renders for a verified admin, whatever the admin flag.                *)
C19_FlagPersistsAndGrants ==
  [][/\ forceAdminFlag => forceAdminFlag'
     /\ (event' = "forceAdminAccessForTesting" /\ ~lastFault') => forceAdminFlag'
     /\ (event' = "isAdminAccessForced" /\ ~lastFault') =>
           toolResult'.value = IF forceAdminFlag' THEN JTrue ELSE JFalse
     /\ (mounted' /\ forceAdminFlag' /\ session' # None) =>
           View(Cur)' = View(AsVerifiedAdmin)']_vars

----------------------------------------------------------------------------
(* Claims about the Credential Store *)

Loaded == standard # "none"

(* C20: the standard handle is constructed whatever the configuration, a    *)
(* missing URL or key included; the elevated handle is null exactly when    *)
(* no administrative secret is configured; a privileged repair without the  *)
(* elevated handle returns false and writes nothing.                        *)
C20_HandlesAndUnavailableRepair ==
  [][/\ Loaded' => standard' = "handle"
     /\ Loaded' => (elevated' = "null" <=> ~config'.serviceKey)
     /\ (event' = "setAdminRole" /\ ~config.serviceKey) =>
           (roleResult' = JFalse /\ profiles' = profiles)]_vars

----------------------------------------------------------------------------
(* Claims about Session Config *)

----------------------------------------------------------------------------
(* Claims about the watchdog and the render priority *)

Spinner == mounted /\ View(Cur) = "loading"

(* C22: while the gate shows the bare spinner the 8 second timer is armed,  *)
(* no time passes beyond it before it fires, its firing sets forceComplete  *)
(* and clears refreshing, and so a gate showing the bare spinner always     *)
(* leaves it, also when the backend never answers.                         *)
C22_WatchdogEndsSpinner ==
  /\ [](Spinner => timeoutRef)
  /\ [][event' = "Tick" => ~Spinner]_vars
  /\ [][event' = "TimeoutFire" =>
          (forceComplete' \/ ~mounted') /\ ~refreshing' /\ ~Spinner']_vars
  /\ (Spinner ~> ~Spinner)

C22_Witness ==
  /\ event = "TimeoutFire" /\ mounted /\ forceComplete
  /\ netOutstanding > 0 /\ View(Cur) = "loading_retry"

(* C23: while the auth state is loading or a refresh of the gate is         *)
(* outstanding, and the watchdog has not fired, the gate renders the        *)
(* loading view: not the protected content, not "Admin Access Required",    *)
(* not "Session Expired" and no redirect, also for a session whose admin    *)
(* flag is true.                                                            *)
C23_LoadingViewHasPriority ==
  (/\ mounted /\ ~forceComplete
   /\ \/ loading \/ refreshing
      \/ AutoOutstanding > 0 \/ ManualOutstanding > 0)
    => (View(Cur) = "loading" /\ lastNav = "none")

C23_Witness ==
  /\ mounted /\ ~forceComplete /\ refreshing /\ ~loading
  /\ session # None /\ isAdmin = JTrue
  /\ View(Cur) = "loading"

----------------------------------------------------------------------------
(* Claims about the one automatic attempt of a gate *)

SameLifetime == mounted /\ mounted'
DiagnosticWaiters == diagRefresh + diagFix

(* C24: within one lifetime of the gate refreshAttempted, once true, stays  *)
(* true; after that no navigation and no expiry of the throttle starts      *)
(* another attemptRefresh, and the only call of refreshSession() the gate   *)
(* makes is the one of a manual retry.                                      *)
C24_OnlyManualRetryRefreshesAgain ==
  [][(SameLifetime /\ refreshAttempted) =>
       /\ refreshAttempted'
       /\ AutoOutstanding' <= AutoOutstanding
       /\ event' \in {"NavigateTo", "Tick"} => netOutstanding' = netOutstanding
       /\ RefreshWaiters' > RefreshWaiters => event' = "HandleManualRefresh"]_vars

(* C24, as amended: refreshAttempted stays true and no navigation or expiry *)
(* of the throttle starts another attemptRefresh; later calls of            *)
(* refreshSession() by the gate come from a manual retry or from the        *)
(* diagnostic effect, which refreshAttempted does not guard.                *)
C24_NoSecondAutomaticAttempt ==
  [][(SameLifetime /\ refreshAttempted) =>
       /\ refreshAttempted'
       /\ AutoOutstanding' <= AutoOutstanding
       /\ event' \in {"NavigateTo", "Tick"} => netOutstanding' = netOutstanding
       /\ ManualOutstanding' > ManualOutstanding => event' = "HandleManualRefresh"
       /\ DiagnosticWaiters' > DiagnosticWaiters =>
            event' \in {"DiagRefresh", "DiagFix"}
       /\ RefreshWaiters' > RefreshWaiters =>
            event' \in {"HandleManualRefresh", "DiagRefresh", "DiagFix"}]_vars

C24_Witness ==
  /\ event = "NavigateTo" /\ mounted /\ refreshAttempted
  /\ ~loading /\ (session = None \/ ~Truthy(isAdmin))
  /\ lastPathRefreshTime[pathname] > 0
  /\ shouldRefreshForPath(lastPathRefreshTime, pathname, now)
  /\ AutoOutstanding = 0 /\ netOutstanding = 0

----------------------------------------------------------------------------
(* Claims about the gate's automatic diagnostic *)

(* C25: a diagnostic that found the admin flag false and the verification   *)
(* reporting is_admin refreshes the session, and when that refresh settles  *)
(* it navigates to login exactly when the admin flag is still not true: a   *)
(* refresh that makes the flag true is followed by no redirect.             *)
C25_RedirectOnlyIfStillNotAdmin ==
  [][/\ event' = "DiagRefresh" => (diagRefresh' = diagRefresh + 1 /\ netOutstanding' = 1)
     /\ (diagRefresh > 0 /\ Resolved(event')) =>
           (lastNav' = "diagnostic" <=> isAdmin' # JTrue)]_vars

----------------------------------------------------------------------------
(* Claims about the report of debugAdminStatus *)

(* C26: debugAdminStatus() logs the inconsistency warning only when the two *)
(* checks disagree: with the verification computed from the same profile    *)
(* row it logs none, whether the role is "admin", another value or null.    *)
C26_NoSpuriousInconsistency ==
  (Inspected /\ stored # None /\ profiles[stored] # NoRow) => ~report.warned

CarriesPayload(result) == result.adminShape \in {"array", "record"}

(* C27: on every return path of debugAdminStatus() that carries the         *)
(* verification's payload, adminCheck is the single verification record,    *)
(* so that result.adminCheck.is_admin read by a consumer is the             *)
(* verification's admin flag, after a successful and after a failed         *)
(* profile fetch alike.                                                     *)
C27_AdminCheckHasOneShape ==
  (Inspected /\ CarriesPayload(report)) =>
     /\ report.adminShape = "record"
     /\ ReadIsAdmin(report) = report.adminCheck.is_admin

----------------------------------------------------------------------------
(* Claims about ensureTheamalAdmin *)

Ensured == event = "ensureTheamalAdmin"
WritingCalls == {"grant_admin_access", "upsert"}

(* C28: ensureTheamalAdmin() calls the grant RPC and writes a profile only  *)
(* with a session of the user whose e-mail is theamal11z@rex.com; in every  *)
(* other case it returns a failure and leaves all profiles as they were,    *)
(* and what it writes is role "admin" on the row of the current user only.  *)
C28_OnlyTheamalSessionWrites ==
  [][event' = "ensureTheamalAdmin" =>
       /\ (stored # TheamalUser
             \/ toolResult'.value \in {"session_error", "no_session", "not_theamal"}) =>
            /\ toolResult'.value # "success"
            /\ toolResult'.calls \cap WritingCalls = {}
            /\ profiles' = profiles
       /\ \A u \in Users : u # stored => profiles'[u] = profiles[u]
       /\ profiles' # profiles => profiles'[stored] = "admin"
       /\ toolResult'.value = "success" => profiles'[stored] = "admin"]_vars

C28_Witness ==
  /\ Ensured /\ stored = TheamalUser /\ toolResult.value = "success"
  /\ WritingCalls \subseteq toolResult.calls
  /\ profiles[TheamalUser] = "admin"
  /\ \E u \in Users : u # stored /\ profiles[u] = "customer"

----------------------------------------------------------------------------
(* Claims about saving the settings *)

SaveDone(c) == saves[c].pc = "idle" /\ saves[c].result # "none"
Saved(c) == saves[c].result \in {"edge_saved", "rpc_saved", "updated", "created"}
LastOf(q) == q[Len(q)]

(* C29: the three saving functions are tried in the order edge function,    *)
(* update_settings RPC, saveSettings, the next one exactly when the one     *)
(* before failed; a call always ends with a result, which is a success      *)
(* exactly when the last function tried succeeded; and the settings table   *)
(* never gets a second row.                                                 *)
C29_FallbackOrderAndSingleRow ==
  /\ \A c \in Callers :
       /\ \E k \in 0..2 : saves[c].tried = SubSeq(Chain, k + 1, k + Len(saves[c].tried))
       /\ \A i \in 1..Len(saves[c].outcomes) :
            i < Len(saves[c].tried) => saves[c].outcomes[i] = "failed"
       /\ SaveDone(c) =>
            /\ Len(saves[c].outcomes) = Len(saves[c].tried)
            /\ Saved(c) <=> LastOf(saves[c].outcomes) = "ok"
            /\ ~Saved(c) => (saves[c].result = "failed" /\ LastOf(saves[c].tried) = "plain")
  /\ Cardinality(RowsOf(settingsTable)) <= 1

----------------------------------------------------------------------------
(* Claims about the notifications *)

(* C30: a notification that is read stays read: whatever an UPDATE sets     *)
(* read to (TRUE, FALSE or NULL), a row whose read was TRUE has read TRUE   *)
(* afterwards; an INSERT stores the row as given.                           *)
C30_ReadStaysRead ==
  [][\A i \in NotificationIds :
       /\ notifications[i] = JTrue => notifications'[i] = JTrue
       /\ (notifications[i] = Absent /\ notifications'[i] # Absent) =>
             event' = "InsertNotification"]_vars

====
